---- MODULE Spec2Model ----
(***************************************************************************)
(* Identity and session core of the Dynasty Futures backend: registration, *)
(* password login with brute-force lockout, federated (Google) login with  *)
(* account linking, refresh-token sessions, token refresh, logout and the  *)
(* authenticate middleware, with the admin's status changes and soft       *)
(* delete, and the provisioning of accounts from Stripe webhooks.  Every   *)
(* request runs in a slot of Procs; a slot suspends at each await of the   *)
(* handler, and each action is one persistence call                        *)
(* together with the synchronous code that follows it up to the next       *)
(* await.  A slot whose pc is "idle" keeps the outcome of its last request *)
(* (result, access, refresh) until the next request starts in it.  Time is *)
(* the wall clock in seconds (the source computes in milliseconds; every   *)
(* duration of the source is a whole number of seconds).                   *)
(***************************************************************************)
EXTENDS Integers, FiniteSets, TLC

VARIABLES now, cfg, users, creds, oauthAccounts, sessions, req, streak, lockDeadline,
          accounts, challenges

vars == <<now, cfg, users, creds, oauthAccounts, sessions, req, streak, lockDeadline,
          accounts, challenges>>

(***************************************************************************)
(* Bounds of the model.                                                    *)
(***************************************************************************)
MaxNowLockout == 1800
MaxNow == 5184000
MaxCounted == 6
MaxSessions == 2
MaxAccounts == 3

Procs == {"p1", "p2"}
QuarterHour == 15 * 60
ThirtyDays == 30 * 24 * 60 * 60
SevenDays == 7 * 24 * 60 * 60

(***************************************************************************)
(* Program constants.                                                      *)
(***************************************************************************)
MAX_FAILED_ATTEMPTS == 5
LOCKOUT_MINUTES == 30

NULL == -1
UserIds == {"u1"}
Statuses == {"PENDING_VERIFICATION", "ACTIVE", "SUSPENDED", "BANNED"}
Roles == {"TRADER", "SUPPORT", "ADMIN"}
Emails == {"alice@x.com", "Alice@x.com", "nobody@x.com"}
Passwords == {"Passw0rd!", "wrong"}

GOOGLE_PROVIDER == "google"
NewUserIds == {"u2"}
Subjects == {"g1", "g2"}

\* What client.verifyIdToken yields: it throws because Google's certificates
\* cannot be fetched (reachable = FALSE) or because the token does not verify
\* (valid = FALSE), or it returns a payload with sub, email (possibly absent)
\* and email_verified (true, false or absent).
GoogleAssertions ==
  {[reachable |-> FALSE, valid |-> FALSE, sub |-> "none", email |-> "none",
    email_verified |-> "missing"],
   [reachable |-> TRUE, valid |-> FALSE, sub |-> "none", email |-> "none",
    email_verified |-> "missing"],
   [reachable |-> TRUE, valid |-> TRUE, sub |-> "g1", email |-> "none",
    email_verified |-> "true"]}
  \cup {[reachable |-> TRUE, valid |-> TRUE, sub |-> g, email |-> e,
         email_verified |-> v] :
          g \in Subjects, e \in {"Alice@x.com", "bob@x.com"},
          v \in {"true", "false", "missing"}}

\* JWT_EXPIRES_IN and the values JWT_REFRESH_EXPIRES_IN may be configured to:
\* the default, and a string the ms library understands but parseDurationMs
\* does not.
JWT_EXPIRES_IN == [n |-> 7, unit |-> "d"]
RefreshExpiresInChoices == {[n |-> 30, unit |-> "d"], [n |-> 1, unit |-> "y"]}

\* email.toLowerCase()
toLowerCase(e) == IF e = "Alice@x.com" THEN "alice@x.com" ELSE e

\* bcrypt.hash / bcrypt.compare: the hash is a one-way image of the password
bcryptHash(pw) == <<"bcrypt", pw>>
bcryptCompare(pw, hash) == bcryptHash(pw) = hash

\* The ms library's conversion of expiresIn strings, in seconds.
msSeconds(d) ==
  CASE d.unit = "s" -> d.n
    [] d.unit = "m" -> d.n * 60
    [] d.unit = "h" -> d.n * 60 * 60
    [] d.unit = "d" -> d.n * 24 * 60 * 60
    [] d.unit = "w" -> d.n * 7 * 24 * 60 * 60
    [] d.unit = "y" -> d.n * 31557600

\* parseDurationMs, in seconds: only s|m|h|d are understood, anything else
\* falls back to 30 days.
parseDurationMs(d) ==
  CASE d.unit = "s" -> d.n
    [] d.unit = "m" -> d.n * 60
    [] d.unit = "h" -> d.n * 60 * 60
    [] d.unit = "d" -> d.n * 24 * 60 * 60
    [] OTHER -> 30 * 24 * 60 * 60

(***************************************************************************)
(* Tokens.  jwt.sign is deterministic: the token is its claims.            *)
(***************************************************************************)
NoToken == [sub |-> "none", role |-> "none", type |-> "none", iat |-> 0, exp |-> 0]
Garbage == [sub |-> "none", role |-> "none", type |-> "garbage", iat |-> 0, exp |-> 0]

generateAccessToken(u, role, t) ==
  [sub |-> u, role |-> role, type |-> "access", iat |-> t,
   exp |-> t + msSeconds(JWT_EXPIRES_IN)]

generateRefreshToken(u, role, t, c) ==
  [sub |-> u, role |-> role, type |-> "refresh", iat |-> t,
   exp |-> t + msSeconds(c)]

\* (a variant that checks the signature and not the expiry)
verifyTokenIgnoreExpiration(tok, t) ==
  IF tok.type \notin {"access", "refresh"} THEN "InvalidTokenError" ELSE "ok"

\* jwt.verify wrapped by verifyToken: "ok", "TokenExpiredError" or
\* "InvalidTokenError"
verifyToken(tok, t) ==
  IF tok.type \notin {"access", "refresh"} THEN "InvalidTokenError"
  ELSE IF t >= tok.exp THEN "TokenExpiredError"
  ELSE "ok"

(***************************************************************************)
(* Repository operations on a credential row.                              *)
(***************************************************************************)
\* (a variant that returns the count read before the update)
incrementFailedAttemptsStale(c) ==
  [cred |-> [c EXCEPT !.failedAttempts = @ + 1], returned |-> c.failedAttempts]

\* one UPDATE ... SET failed_attempts = failed_attempts + 1 RETURNING: the row
\* after the update and the count the caller gets
incrementFailedAttempts(c) ==
  LET cred == [c EXCEPT !.failedAttempts = @ + 1]
  IN [cred |-> cred, returned |-> cred.failedAttempts]

\* (a variant that resets the counter and keeps the lock)
resetCounterOnly(c) == [c EXCEPT !.failedAttempts = 0]

resetFailedAttempts(c) == [c EXCEPT !.failedAttempts = 0, !.lockedUntil = NULL]

\* updateLastLogin: lastLoginAt = new Date()
updateLastLogin(u, t) == [users EXCEPT ![u].lastLoginAt = t]

lockCredentials(c, until) == [c EXCEPT !.lockedUntil = until]

\* login's lockout check (lockedUntil && lockedUntil > new Date())
isLocked(c, t) == c.lockedUntil # NULL /\ c.lockedUntil > t

findUserByEmail(e) ==
  {u \in DOMAIN users : users[u].email = toLowerCase(e)}

\* (a variant that looks the account up with its two keys swapped)
findOAuthAccountSwapped(provider, providerId) ==
  {o \in oauthAccounts : o.provider = providerId /\ o.providerId = provider}

findOAuthAccount(provider, providerId) ==
  {o \in oauthAccounts : o.provider = provider /\ o.providerId = providerId}

findSessionByToken(tok) == {s \in sessions : s.token = tok}

deleteSession(tok) == {s \in sessions : s.token # tok}

(***************************************************************************)
(* Request slots.                                                          *)
(***************************************************************************)
Idle ==
  [op |-> "none", pc |-> "idle", user |-> "none", role |-> "none",
   password |-> "none", attempts |-> 0, lockUntil |-> NULL,
   token |-> NoToken, access |-> NoToken, refresh |-> NoToken,
   expiresAt |-> 0, result |-> "none",
   dueLocked |-> FALSE, elapsed |-> FALSE,
   afterLogout |-> FALSE, afterInactive |-> FALSE,
   email |-> "none", subject |-> "none", verified |-> "none",
   inserted |-> "none", inactive |-> FALSE, outage |-> FALSE,
   payment |-> "none", plan |-> "none", deleted |-> FALSE]

\* the handler returns or throws: the slot is idle again and keeps the outcome
Done(r, res) ==
  [r EXCEPT !.pc = "idle", !.result = res, !.password = "none",
            !.attempts = 0, !.lockUntil = NULL, !.expiresAt = 0]

\* Outcomes, by error class and message.
InvalidCredentials == "AuthenticationError: Invalid email or password"
Banned == "AuthenticationError: This account has been banned"
Suspended == "AuthenticationError: This account has been suspended"
Locked == "AuthenticationError: Account is temporarily locked"
LockedNow == "AuthenticationError: Too many failed attempts"
NoLongerActive == "AuthenticationError: Account is no longer active"
TokenExpired == "TokenExpiredError: Token has expired"
RefreshExpired == "TokenExpiredError: Refresh token has expired"
InvalidToken == "InvalidTokenError: Invalid token"
ExpectedRefresh == "InvalidTokenError: Expected a refresh token"
SessionRevoked == "UnauthorizedError: Session has been revoked"
InvalidGoogleToken == "AuthenticationError: Invalid Google ID token"
NoGoogleEmail == "AuthenticationError: Google token does not contain an email"
GoogleEmailUnverified == "AuthenticationError: Google email is not verified"
Conflict == "ConflictError: An account with this email already exists"
UniqueConstraintFailed == "PrismaClientKnownRequestError: P2002"
RecordNotFound == "PrismaClientKnownRequestError: P2025"
MissingHeader == "UnauthorizedError: Missing or malformed Authorization header"
AccessTokenExpired == "TokenExpiredError: Access token has expired"
InvalidAccessToken == "InvalidTokenError: Invalid access token"
ExpectedAccess == "InvalidTokenError: Expected an access token"
PaymentFailed == "PaymentError: No account type configured"
DatabaseUnreachable == "PrismaClientInitializationError: Can't reach database server"
Success == "ok"

Init ==
  /\ now = 0
  /\ cfg \in RefreshExpiresInChoices
  /\ users = [u \in UserIds |->
               [email |-> "alice@x.com", status |-> "ACTIVE", role |-> "TRADER",
                lastLoginAt |-> NULL, deletedAt |-> NULL]]
  /\ creds = [u \in UserIds |->
               [passwordHash |-> bcryptHash("Passw0rd!"), failedAttempts |-> 0,
                lockedUntil |-> NULL]]
  /\ oauthAccounts = {}
  /\ sessions = {}
  /\ req = [p \in Procs |-> Idle]
  /\ streak = [u \in UserIds |-> 0]
  /\ lockDeadline = [u \in UserIds |-> NULL]
  /\ accounts = {}
  /\ challenges = {}

Min(a, b) == IF a < b THEN a ELSE b

\* The tokens a client can present: those returned to or presented by a
\* request, those of the stored sessions, and a string that is no signed token.
Returned == {q \in Procs : req[q].pc = "idle"}

KnownTokens ==
  ({req[q].access : q \in Returned} \cup {req[q].refresh : q \in Returned}
     \cup {req[q].token : q \in Procs} \cup {s.token : s \in sessions}
     \cup {Garbage}) \ {NoToken}

\* What the history says of a request when it is made (these fields record
\* the past and are read by no handler).
\* dueLocked: MAX_FAILED_ATTEMPTS consecutive wrong-password logins have ended
\* and the lock the last of them set has not elapsed.
DueLocked(u) ==
  /\ streak[u] >= MAX_FAILED_ATTEMPTS
  /\ lockDeadline[u] # NULL
  /\ now < lockDeadline[u]

\* elapsed: the stored lock is set and has elapsed.
Elapsed(u) == creds[u].lockedUntil # NULL /\ creds[u].lockedUntil <= now

\* afterLogout: a logout of this token has completed.
AfterLogout(tok) ==
  \E q \in Returned : req[q].op = "logout" /\ req[q].token = tok

\* afterInactive: a refresh of this token was rejected for a banned or
\* suspended user.
AfterInactive(tok) ==
  \E q \in Returned :
     /\ req[q].op = "refresh" /\ req[q].token = tok
     /\ req[q].result = "AuthenticationError: Account is no longer active"

\* inactive: the User row a federated login resolved was BANNED or SUSPENDED
\* when it was read.
Inactive(u) == users[u].status \in {"BANNED", "SUSPENDED"}

\* deleted: the User row a login, federated login or refresh resolved carried
\* the soft-delete marker when it was read.
Deleted(u) == users[u].deletedAt # NULL

\* A refresh of this token has returned an access token.
AfterRefresh(tok) ==
  \E q \in Returned :
     req[q].op = "refresh" /\ req[q].token = tok /\ req[q].result = "ok"

\* A Session row of this token is stored and has not expired.
LiveSession(tok) == \E s \in sessions : s.token = tok /\ ~(s.expiresAt < now)

(***************************************************************************)
(* login                                                                   *)
(***************************************************************************)
\* (a variant that checks the lockout window before the status)
LoginFindLockFirst(p, email, password) ==
  /\ req[p].pc = "idle"
  /\ LET found == findUserByEmail(email) IN
     \/ /\ found = {}
        /\ req' = [req EXCEPT ![p] = Done([Idle EXCEPT !.op = "login"], InvalidCredentials)]
     \/ \E u \in found :
          /\ bcryptCompare(password, creds[u].passwordHash)
               => Cardinality(sessions) < MaxSessions
          /\ ~bcryptCompare(password, creds[u].passwordHash)
               => creds[u].failedAttempts < MaxCounted
          /\ LET r == [Idle EXCEPT !.op = "login", !.user = u,
                                   !.role = users[u].role,
                                   !.dueLocked = DueLocked(u),
                                   !.deleted = Deleted(u),
                                   !.elapsed =
                                      /\ Elapsed(u)
                                      /\ bcryptCompare(password, creds[u].passwordHash)
                                      /\ users[u].status \in
                                           {"ACTIVE", "PENDING_VERIFICATION"}]
             IN req' = [req EXCEPT ![p] =
                  IF isLocked(creds[u], now) THEN Done(r, Locked)
                  ELSE IF users[u].status = "BANNED" THEN Done(r, Banned)
                  ELSE IF users[u].status = "SUSPENDED" THEN Done(r, Suspended)
                  ELSE [r EXCEPT !.pc = "compare", !.password = password]]
  /\ UNCHANGED <<now, cfg, users, creds, sessions, streak, lockDeadline, oauthAccounts,
               accounts, challenges>>

\* findUserByEmailWithCredentials and the checks up to bcrypt.compare
LoginFind(p, email, password) ==
  /\ req[p].pc = "idle"
  /\ LET found == findUserByEmail(email) IN
     \/ /\ found = {}
        /\ req' = [req EXCEPT ![p] = Done([Idle EXCEPT !.op = "login"], InvalidCredentials)]
     \/ \E u \in found :
          /\ bcryptCompare(password, creds[u].passwordHash)
               => Cardinality(sessions) < MaxSessions
          /\ ~bcryptCompare(password, creds[u].passwordHash)
               => creds[u].failedAttempts < MaxCounted
          /\ LET r == [Idle EXCEPT !.op = "login", !.user = u,
                                   !.role = users[u].role,
                                   !.dueLocked = DueLocked(u),
                                   !.deleted = Deleted(u),
                                   !.elapsed =
                                      /\ Elapsed(u)
                                      /\ bcryptCompare(password, creds[u].passwordHash)
                                      /\ users[u].status \in
                                           {"ACTIVE", "PENDING_VERIFICATION"}]
             IN req' = [req EXCEPT ![p] =
                  IF users[u].status = "BANNED" THEN Done(r, Banned)
                  ELSE IF users[u].status = "SUSPENDED" THEN Done(r, Suspended)
                  ELSE IF isLocked(creds[u], now) THEN Done(r, Locked)
                  ELSE [r EXCEPT !.pc = "compare", !.password = password]]
  /\ UNCHANGED <<now, cfg, users, creds, sessions, streak, lockDeadline, oauthAccounts,
               accounts, challenges>>

\* bcrypt.compare failed: incrementFailedAttempts, then the threshold check
LoginIncrement(p) ==
  /\ req[p].op = "login" /\ req[p].pc = "compare"
  /\ LET u == req[p].user
         attempts == incrementFailedAttempts(creds[u]).returned
     IN /\ ~bcryptCompare(req[p].password, creds[u].passwordHash)
        /\ creds' = [creds EXCEPT ![u] = incrementFailedAttempts(@).cred]
        /\ IF attempts >= MAX_FAILED_ATTEMPTS
             THEN /\ req' = [req EXCEPT ![p].pc = "lock", ![p].attempts = attempts,
                                        ![p].lockUntil = now + LOCKOUT_MINUTES * 60]
                  /\ UNCHANGED streak
             ELSE /\ req' = [req EXCEPT ![p] =
                               Done(req[p], InvalidCredentials)]
                  /\ streak' = [streak EXCEPT ![u] = Min(@ + 1, MAX_FAILED_ATTEMPTS)]
  /\ UNCHANGED <<now, cfg, users, sessions, lockDeadline, oauthAccounts,
               accounts, challenges>>

\* lockCredentials(user.id, lockUntil)
LoginLock(p) ==
  /\ req[p].op = "login" /\ req[p].pc = "lock"
  /\ LET u == req[p].user IN
       /\ creds' = [creds EXCEPT ![u] = lockCredentials(@, req[p].lockUntil)]
       /\ lockDeadline' = [lockDeadline EXCEPT ![u] = req[p].lockUntil]
       /\ streak' = [streak EXCEPT ![u] = Min(@ + 1, MAX_FAILED_ATTEMPTS)]
  /\ req' = [req EXCEPT ![p] = Done(req[p], LockedNow)]
  /\ UNCHANGED <<now, cfg, users, sessions, oauthAccounts,
               accounts, challenges>>

\* bcrypt.compare succeeded: resetFailedAttempts
LoginReset(p) ==
  /\ req[p].op = "login" /\ req[p].pc = "compare"
  /\ LET u == req[p].user IN
       /\ bcryptCompare(req[p].password, creds[u].passwordHash)
       /\ creds' = [creds EXCEPT ![u] = resetFailedAttempts(@)]
  /\ req' = [req EXCEPT ![p].pc = "lastLogin"]
  /\ UNCHANGED <<now, cfg, users, sessions, streak, lockDeadline, oauthAccounts,
               accounts, challenges>>

\* updateLastLogin, then generateTokenPair and the session's expiry
LoginUpdateLastLogin(p) ==
  /\ req[p].op = "login" /\ req[p].pc = "lastLogin"
  /\ LET u == req[p].user IN
       req' = [req EXCEPT ![p].pc = "session",
                 ![p].access = generateAccessToken(u, req[p].role, now),
                 ![p].refresh = generateRefreshToken(u, req[p].role, now, cfg),
                 ![p].expiresAt = now + parseDurationMs(cfg)]
  /\ users' = updateLastLogin(req[p].user, now)
  /\ UNCHANGED <<now, cfg, creds, sessions, streak, lockDeadline, oauthAccounts,
               accounts, challenges>>

\* createSession: the insert fails on the unique index sessions_token_key
LoginCreateSession(p) ==
  /\ req[p].op = "login" /\ req[p].pc = "session"
  /\ LET u == req[p].user IN
     IF findSessionByToken(req[p].refresh) # {}
       THEN /\ req' = [req EXCEPT ![p] =
                         Done([req[p] EXCEPT !.access = NoToken, !.refresh = NoToken],
                              UniqueConstraintFailed)]
            /\ UNCHANGED <<sessions, streak>>
       ELSE /\ sessions' = sessions \cup
                 {[token |-> req[p].refresh, userId |-> u,
                   expiresAt |-> req[p].expiresAt]}
            /\ streak' = [streak EXCEPT ![u] = 0]
            /\ req' = [req EXCEPT ![p] = Done(req[p], Success)]
  /\ UNCHANGED <<now, cfg, users, creds, lockDeadline, oauthAccounts,
               accounts, challenges>>

(***************************************************************************)
(* googleAuth                                                              *)
(***************************************************************************)
\* the id the database gives the next User row
NextUserId == CHOOSE u \in NewUserIds : u \notin DOMAIN users

\* client.verifyIdToken and the checks of the payload
GoogleVerify(p, a) ==
  /\ req[p].pc = "idle"
  /\ a \in GoogleAssertions
  /\ Cardinality(sessions) < MaxSessions
  /\ LET r == [Idle EXCEPT !.op = "google", !.subject = a.sub, !.email = a.email,
                           !.verified = a.email_verified,
                           !.outage = ~a.reachable]
     IN req' = [req EXCEPT ![p] =
          IF ~a.valid THEN Done(r, InvalidGoogleToken)
          ELSE IF a.email = "none" THEN Done(r, NoGoogleEmail)
          ELSE IF a.email_verified = "false" THEN Done(r, GoogleEmailUnverified)
          ELSE [r EXCEPT !.pc = "findOAuth"]]
  /\ UNCHANGED <<now, cfg, users, creds, oauthAccounts, sessions, streak, lockDeadline,
               accounts, challenges>>

\* findOAuthAccount and, for a linked subject, the status check of its owner
GoogleFindOAuthAccount(p) ==
  /\ req[p].op = "google" /\ req[p].pc = "findOAuth"
  /\ LET found == findOAuthAccount(GOOGLE_PROVIDER, req[p].subject) IN
       \/ /\ found = {}
          /\ req' = [req EXCEPT ![p].pc = "findUser"]
       \/ \E o \in found :
            LET r == [req[p] EXCEPT !.user = o.userId, !.role = users[o.userId].role,
                                    !.inactive = Inactive(o.userId),
                                    !.deleted = Deleted(o.userId)]
            IN req' = [req EXCEPT ![p] =
                 IF users[o.userId].status = "BANNED" THEN Done(r, Banned)
                 ELSE IF users[o.userId].status = "SUSPENDED" THEN Done(r, Suspended)
                 ELSE [r EXCEPT !.pc = "lastLogin"]]
  /\ UNCHANGED <<now, cfg, users, creds, oauthAccounts, sessions, streak, lockDeadline,
               accounts, challenges>>

\* findUserByEmail(googleEmail)
GoogleFindUserByEmail(p) ==
  /\ req[p].op = "google" /\ req[p].pc = "findUser"
  /\ LET found == findUserByEmail(req[p].email) IN
       \/ /\ found = {}
          /\ req' = [req EXCEPT ![p].pc = "create"]
       \/ \E u \in found :
            req' = [req EXCEPT ![p].pc = "link", ![p].user = u,
                               ![p].role = users[u].role,
                               ![p].inactive = Inactive(u),
                               ![p].deleted = Deleted(u)]
  /\ UNCHANGED <<now, cfg, users, creds, oauthAccounts, sessions, streak, lockDeadline,
               accounts, challenges>>

\* linkOAuthAccount: the insert fails on oauth_accounts_provider_provider_id_key
GoogleLink(p) ==
  /\ req[p].op = "google" /\ req[p].pc = "link"
  /\ IF findOAuthAccount(GOOGLE_PROVIDER, req[p].subject) # {}
       THEN /\ req' = [req EXCEPT ![p] = Done(req[p], UniqueConstraintFailed)]
            /\ UNCHANGED oauthAccounts
       ELSE /\ oauthAccounts' = oauthAccounts \cup
                 {[provider |-> GOOGLE_PROVIDER, providerId |-> req[p].subject,
                   userId |-> req[p].user]}
            /\ req' = [req EXCEPT ![p].pc = "lastLogin", ![p].inserted = "oauth"]
  /\ UNCHANGED <<now, cfg, users, creds, sessions, streak, lockDeadline,
               accounts, challenges>>

\* (a variant without the transaction: the User row stays when the insert of
\* its OAuthAccount fails)
GoogleCreateNoTransaction(p) ==
  /\ req[p].op = "google" /\ req[p].pc = "create"
  /\ IF findUserByEmail(req[p].email) # {}
       THEN /\ req' = [req EXCEPT ![p] = Done(req[p], UniqueConstraintFailed)]
            /\ UNCHANGED <<users, oauthAccounts>>
       ELSE /\ NewUserIds \ DOMAIN users # {}
            /\ LET u == NextUserId IN
                 /\ users' = [v \in DOMAIN users \cup {u} |->
                       IF v = u
                         THEN [email |-> toLowerCase(req[p].email),
                               status |-> "ACTIVE", role |-> "TRADER",
                               lastLoginAt |-> NULL, deletedAt |-> NULL]
                         ELSE users[v]]
                 /\ IF findOAuthAccount(GOOGLE_PROVIDER, req[p].subject) # {}
                      THEN /\ UNCHANGED oauthAccounts
                           /\ req' = [req EXCEPT ![p] =
                                        Done(req[p], UniqueConstraintFailed)]
                      ELSE /\ oauthAccounts' = oauthAccounts \cup
                                {[provider |-> GOOGLE_PROVIDER,
                                  providerId |-> req[p].subject, userId |-> u]}
                           /\ req' = [req EXCEPT ![p].pc = "lastLogin", ![p].user = u,
                                                 ![p].role = "TRADER",
                                                 ![p].inserted = "user+oauth"]
  /\ UNCHANGED <<now, cfg, creds, sessions, streak, lockDeadline,
               accounts, challenges>>

\* createOAuthUser: one transaction inserts the User and its OAuthAccount; it
\* fails as a whole on users_email_key or on the OAuthAccount's unique key
GoogleCreate(p) ==
  /\ req[p].op = "google" /\ req[p].pc = "create"
  /\ IF \/ findUserByEmail(req[p].email) # {}
        \/ findOAuthAccount(GOOGLE_PROVIDER, req[p].subject) # {}
       THEN /\ req' = [req EXCEPT ![p] = Done(req[p], UniqueConstraintFailed)]
            /\ UNCHANGED <<users, oauthAccounts>>
       ELSE /\ NewUserIds \ DOMAIN users # {}
            /\ LET u == NextUserId IN
                 /\ users' = [v \in DOMAIN users \cup {u} |->
                       IF v = u
                         THEN [email |-> toLowerCase(req[p].email),
                               status |-> "ACTIVE", role |-> "TRADER",
                               lastLoginAt |-> NULL, deletedAt |-> NULL]
                         ELSE users[v]]
                 /\ oauthAccounts' = oauthAccounts \cup
                       {[provider |-> GOOGLE_PROVIDER, providerId |-> req[p].subject,
                         userId |-> u]}
                 /\ req' = [req EXCEPT ![p].pc = "lastLogin", ![p].user = u,
                                       ![p].role = "TRADER",
                                       ![p].inserted = "user+oauth"]
  /\ UNCHANGED <<now, cfg, creds, sessions, streak, lockDeadline,
               accounts, challenges>>

\* (a variant that also resets the failed-attempt counter, as login does)
GoogleUpdateLastLoginResetting(p) ==
  /\ req[p].op = "google" /\ req[p].pc = "lastLogin"
  /\ LET u == req[p].user IN
       /\ req' = [req EXCEPT ![p].pc = "session",
                    ![p].access = generateAccessToken(u, req[p].role, now),
                    ![p].refresh = generateRefreshToken(u, req[p].role, now, cfg),
                    ![p].expiresAt = now + parseDurationMs(cfg)]
       /\ creds' = [v \in DOMAIN creds |->
                      IF v = u THEN resetFailedAttempts(creds[v]) ELSE creds[v]]
  /\ users' = updateLastLogin(req[p].user, now)
  /\ UNCHANGED <<now, cfg, oauthAccounts, sessions, streak, lockDeadline,
               accounts, challenges>>

\* updateLastLogin, then generateTokenPair and the session's expiry
GoogleUpdateLastLogin(p) ==
  /\ req[p].op = "google" /\ req[p].pc = "lastLogin"
  /\ LET u == req[p].user IN
       req' = [req EXCEPT ![p].pc = "session",
                 ![p].access = generateAccessToken(u, req[p].role, now),
                 ![p].refresh = generateRefreshToken(u, req[p].role, now, cfg),
                 ![p].expiresAt = now + parseDurationMs(cfg)]
  /\ users' = updateLastLogin(req[p].user, now)
  /\ UNCHANGED <<now, cfg, creds, oauthAccounts, sessions, streak, lockDeadline,
               accounts, challenges>>

\* createSession: the insert fails on the unique index sessions_token_key
GoogleCreateSession(p) ==
  /\ req[p].op = "google" /\ req[p].pc = "session"
  /\ IF findSessionByToken(req[p].refresh) # {}
       THEN /\ req' = [req EXCEPT ![p] =
                         Done([req[p] EXCEPT !.access = NoToken, !.refresh = NoToken],
                              UniqueConstraintFailed)]
            /\ UNCHANGED sessions
       ELSE /\ sessions' = sessions \cup
                 {[token |-> req[p].refresh, userId |-> req[p].user,
                   expiresAt |-> req[p].expiresAt]}
            /\ req' = [req EXCEPT ![p] = Done(req[p], Success)]
  /\ UNCHANGED <<now, cfg, users, creds, oauthAccounts, streak, lockDeadline,
               accounts, challenges>>

(***************************************************************************)
(* register                                                                *)
(***************************************************************************)
\* findUserByEmail(email), the conflict check and bcrypt.hash
RegisterFind(p, email, password) ==
  /\ req[p].pc = "idle"
  /\ LET r == [Idle EXCEPT !.op = "register", !.email = email]
     IN req' = [req EXCEPT ![p] =
          IF findUserByEmail(email) # {} THEN Done(r, Conflict)
          ELSE [r EXCEPT !.pc = "create", !.password = password]]
  /\ UNCHANGED <<now, cfg, users, creds, oauthAccounts, sessions, streak, lockDeadline,
               accounts, challenges>>

\* (a variant that stores a Session for the refresh token, as login does)
RegisterCreateWithSession(p) ==
  /\ req[p].op = "register" /\ req[p].pc = "create"
  /\ findUserByEmail(req[p].email) = {}
  /\ NewUserIds \ DOMAIN users # {}
  /\ Cardinality(sessions) < MaxSessions
  /\ LET u == NextUserId
         refresh == generateRefreshToken(u, "TRADER", now, cfg)
     IN
       /\ users' = [v \in DOMAIN users \cup {u} |->
             IF v = u
               THEN [email |-> toLowerCase(req[p].email),
                     status |-> "PENDING_VERIFICATION", role |-> "TRADER",
                     lastLoginAt |-> NULL, deletedAt |-> NULL]
               ELSE users[v]]
       /\ creds' = [v \in DOMAIN creds \cup {u} |->
             IF v = u
               THEN [passwordHash |-> bcryptHash(req[p].password),
                     failedAttempts |-> 0, lockedUntil |-> NULL]
               ELSE creds[v]]
       /\ streak' = [v \in DOMAIN streak \cup {u} |-> IF v = u THEN 0 ELSE streak[v]]
       /\ lockDeadline' = [v \in DOMAIN lockDeadline \cup {u} |->
                             IF v = u THEN NULL ELSE lockDeadline[v]]
       /\ sessions' = sessions \cup
             {[token |-> refresh, userId |-> u,
               expiresAt |-> now + parseDurationMs(cfg)]}
       /\ req' = [req EXCEPT ![p] =
             Done([req[p] EXCEPT !.user = u, !.role = "TRADER",
                     !.inserted = "user+credential",
                     !.access = generateAccessToken(u, "TRADER", now),
                     !.refresh = refresh],
                  Success)]
  /\ UNCHANGED <<now, cfg, oauthAccounts,
               accounts, challenges>>

\* createUserWithPassword: one transaction inserts the User and its
\* Credential; it fails as a whole on users_email_key.  Then generateTokenPair.
RegisterCreate(p) ==
  /\ req[p].op = "register" /\ req[p].pc = "create"
  /\ IF findUserByEmail(req[p].email) # {}
       THEN /\ req' = [req EXCEPT ![p] = Done(req[p], UniqueConstraintFailed)]
            /\ UNCHANGED <<users, creds, streak, lockDeadline>>
       ELSE /\ NewUserIds \ DOMAIN users # {}
            /\ LET u == NextUserId IN
                 /\ users' = [v \in DOMAIN users \cup {u} |->
                       IF v = u
                         THEN [email |-> toLowerCase(req[p].email),
                               status |-> "PENDING_VERIFICATION", role |-> "TRADER",
                               lastLoginAt |-> NULL, deletedAt |-> NULL]
                         ELSE users[v]]
                 /\ creds' = [v \in DOMAIN creds \cup {u} |->
                       IF v = u
                         THEN [passwordHash |-> bcryptHash(req[p].password),
                               failedAttempts |-> 0, lockedUntil |-> NULL]
                         ELSE creds[v]]
                 /\ streak' = [v \in DOMAIN streak \cup {u} |->
                                 IF v = u THEN 0 ELSE streak[v]]
                 /\ lockDeadline' = [v \in DOMAIN lockDeadline \cup {u} |->
                                       IF v = u THEN NULL ELSE lockDeadline[v]]
                 /\ req' = [req EXCEPT ![p] =
                       Done([req[p] EXCEPT !.user = u, !.role = "TRADER",
                               !.inserted = "user+credential",
                               !.access = generateAccessToken(u, "TRADER", now),
                               !.refresh = generateRefreshToken(u, "TRADER", now, cfg)],
                            Success)]
  /\ UNCHANGED <<now, cfg, oauthAccounts, sessions,
               accounts, challenges>>

(***************************************************************************)
(* refreshAccessToken                                                      *)
(***************************************************************************)
\* verifyToken and the type check
RefreshVerify(p, tok) ==
  /\ req[p].pc = "idle"
  /\ tok \in KnownTokens
  /\ LET v == verifyToken(tok, now)
         r == [Idle EXCEPT !.op = "refresh", !.token = tok,
                           !.afterLogout = AfterLogout(tok),
                           !.afterInactive = AfterInactive(tok)]
     IN req' = [req EXCEPT ![p] =
          IF v = "TokenExpiredError" THEN Done(r, TokenExpired)
          ELSE IF v = "InvalidTokenError" THEN Done(r, InvalidToken)
          ELSE IF tok.type # "refresh" THEN Done(r, ExpectedRefresh)
          ELSE [r EXCEPT !.pc = "findSession"]]
  /\ UNCHANGED <<now, cfg, users, creds, sessions, streak, lockDeadline, oauthAccounts,
               accounts, challenges>>

\* findSessionByToken and the session's expiry check
RefreshFindSession(p) ==
  /\ req[p].op = "refresh" /\ req[p].pc = "findSession"
  /\ LET found == findSessionByToken(req[p].token) IN
       req' = [req EXCEPT ![p] =
         IF found = {} THEN Done(req[p], SessionRevoked)
         ELSE IF \E s \in found : s.expiresAt < now
           THEN [req[p] EXCEPT !.pc = "deleteExpired"]
           ELSE [req[p] EXCEPT !.pc = "findUser"]]
  /\ UNCHANGED <<now, cfg, users, creds, sessions, streak, lockDeadline, oauthAccounts,
               accounts, challenges>>

\* deleteSession of the expired session
RefreshDeleteExpired(p) ==
  /\ req[p].op = "refresh" /\ req[p].pc = "deleteExpired"
  /\ sessions' = deleteSession(req[p].token)
  /\ req' = [req EXCEPT ![p] = Done(req[p], RefreshExpired)]
  /\ UNCHANGED <<now, cfg, users, creds, streak, lockDeadline, oauthAccounts,
               accounts, challenges>>

\* (a variant that copies the claims embedded in the refresh token)
RefreshFindUserEmbeddedClaims(p) ==
  /\ req[p].op = "refresh" /\ req[p].pc = "findUser"
  /\ LET u == req[p].token.sub IN
       req' = [req EXCEPT ![p] =
         IF users[u].status \in {"BANNED", "SUSPENDED"}
           THEN [req[p] EXCEPT !.pc = "deleteInactive"]
           ELSE Done([req[p] EXCEPT !.user = u, !.role = req[p].token.role,
                        !.deleted = Deleted(u),
                        !.access = generateAccessToken(u, req[p].token.role, now)],
                     Success)]
  /\ UNCHANGED <<now, cfg, users, creds, sessions, streak, lockDeadline, oauthAccounts,
               accounts, challenges>>

\* (a variant that rotates: the Session of the presented token is deleted)
RefreshFindUserRotating(p) ==
  /\ req[p].op = "refresh" /\ req[p].pc = "findUser"
  /\ LET u == req[p].token.sub IN
       /\ req' = [req EXCEPT ![p] =
            Done([req[p] EXCEPT !.user = u, !.role = users[u].role,
                    !.deleted = Deleted(u),
                    !.access = generateAccessToken(u, users[u].role, now)],
                 Success)]
       /\ sessions' = deleteSession(req[p].token)
  /\ UNCHANGED <<now, cfg, users, creds, streak, lockDeadline, oauthAccounts,
               accounts, challenges>>

\* findUserById, the status check and generateAccessToken (users are only ever
\* soft-deleted, so the row of token.sub is always found)
RefreshFindUser(p) ==
  /\ req[p].op = "refresh" /\ req[p].pc = "findUser"
  /\ LET u == req[p].token.sub IN
       req' = [req EXCEPT ![p] =
         IF users[u].status \in {"BANNED", "SUSPENDED"}
           THEN [req[p] EXCEPT !.pc = "deleteInactive"]
           ELSE Done([req[p] EXCEPT !.user = u, !.role = users[u].role,
                        !.deleted = Deleted(u),
                        !.access = generateAccessToken(u, users[u].role, now)],
                     Success)]
  /\ UNCHANGED <<now, cfg, users, creds, sessions, streak, lockDeadline, oauthAccounts,
               accounts, challenges>>

\* deleteSession of a banned or suspended user's session
RefreshDeleteInactive(p) ==
  /\ req[p].op = "refresh" /\ req[p].pc = "deleteInactive"
  /\ sessions' = deleteSession(req[p].token)
  /\ req' = [req EXCEPT ![p] = Done(req[p], NoLongerActive)]
  /\ UNCHANGED <<now, cfg, users, creds, streak, lockDeadline, oauthAccounts,
               accounts, challenges>>

(***************************************************************************)
(* logout                                                                  *)
(***************************************************************************)
\* (a variant that lets the "record not found" error of the delete through)
deleteSessionThrows(tok) ==
  IF findSessionByToken(tok) = {} THEN RecordNotFound ELSE Success

\* what deleteSession returns to its caller: prisma.session.delete throws P2025
\* when no row has the token, and deleteSession catches it
deleteSessionReturns(tok) ==
  IF findSessionByToken(tok) = {} THEN Success ELSE Success

Logout(p, tok) ==
  /\ req[p].pc = "idle"
  /\ tok \in KnownTokens
  /\ sessions' = deleteSession(tok)
  /\ req' = [req EXCEPT ![p] =
       Done([Idle EXCEPT !.op = "logout", !.token = tok], deleteSessionReturns(tok))]
  /\ UNCHANGED <<now, cfg, users, creds, streak, lockDeadline, oauthAccounts,
               accounts, challenges>>

(***************************************************************************)
(* authenticate (middleware)                                               *)
(***************************************************************************)
\* (a variant that also looks the token's user and sessions up)
AuthenticateStateful(p, tok) ==
  /\ req[p].pc = "idle"
  /\ tok \in KnownTokens \cup {NoToken}
  /\ LET v == verifyToken(tok, now)
         r == [Idle EXCEPT !.op = "authenticate", !.token = tok]
     IN req' = [req EXCEPT ![p] =
          IF tok = NoToken THEN Done(r, MissingHeader)
          ELSE IF v = "TokenExpiredError" THEN Done(r, AccessTokenExpired)
          ELSE IF v = "InvalidTokenError" THEN Done(r, InvalidAccessToken)
          ELSE IF tok.type # "access" THEN Done(r, ExpectedAccess)
          ELSE IF users[tok.sub].status \in {"BANNED", "SUSPENDED"}
            THEN Done(r, NoLongerActive)
          ELSE IF \A t \in sessions : t.userId # tok.sub THEN Done(r, SessionRevoked)
          ELSE Done([r EXCEPT !.user = tok.sub, !.role = tok.role], Success)]
  /\ UNCHANGED <<now, cfg, users, creds, oauthAccounts, sessions, streak, lockDeadline,
                 accounts, challenges>>

\* the Authorization header, jwt.verify and the type check; req.user is
\* filled from the token's claims
Authenticate(p, tok) ==
  /\ req[p].pc = "idle"
  /\ tok \in KnownTokens \cup {NoToken}
  /\ LET v == verifyToken(tok, now)
         r == [Idle EXCEPT !.op = "authenticate", !.token = tok]
     IN req' = [req EXCEPT ![p] =
          IF tok = NoToken THEN Done(r, MissingHeader)
          ELSE IF v = "TokenExpiredError" THEN Done(r, AccessTokenExpired)
          ELSE IF v = "InvalidTokenError" THEN Done(r, InvalidAccessToken)
          ELSE IF tok.type # "access" THEN Done(r, ExpectedAccess)
          ELSE Done([r EXCEPT !.user = tok.sub, !.role = tok.role], Success)]
  /\ UNCHANGED <<now, cfg, users, creds, oauthAccounts, sessions, streak, lockDeadline,
                 accounts, challenges>>

(***************************************************************************)
(* provisionAccount, called by handleCheckoutCompleted for each delivery   *)
(* of checkout.session.completed                                           *)
(***************************************************************************)
Payments == {"pi_1", "pi_2"}
\* the plans of the deliveries: one with an active AccountType, one without
Plans == {"standard", "unknown"}

\* prisma.challenge.findFirst({ where: { stripePaymentId } })
findChallengeByPayment(pay) == {c \in challenges : c.stripePaymentId = pay}

\* the id the database gives the next Account row
NextAccountId == Cardinality(accounts) + 1

\* the idempotency check of provisionAccount
ProvisionFindChallenge(p, pay, plan) ==
  /\ req[p].pc = "idle"
  /\ pay \in Payments /\ plan \in Plans
  /\ Cardinality(accounts) < MaxAccounts
  /\ LET r == [Idle EXCEPT !.op = "provision", !.payment = pay, !.plan = plan]
     IN req' = [req EXCEPT ![p] =
          IF findChallengeByPayment(pay) # {} THEN Done(r, Success)
          ELSE [r EXCEPT !.pc = "findAccountType"]]
  /\ UNCHANGED <<now, cfg, users, creds, oauthAccounts, sessions, streak, lockDeadline,
                 accounts, challenges>>

\* prisma.accountType.findFirst: without an AccountType provisionAccount throws
\* PaymentError, which handleCheckoutCompleted catches and logs
ProvisionFindAccountType(p) ==
  /\ req[p].op = "provision" /\ req[p].pc = "findAccountType"
  /\ req' = [req EXCEPT ![p] =
       IF req[p].plan = "unknown" THEN Done(req[p], PaymentFailed)
       ELSE [req[p] EXCEPT !.pc = "create"]]
  /\ UNCHANGED <<now, cfg, users, creds, oauthAccounts, sessions, streak, lockDeadline,
                 accounts, challenges>>

\* the transaction that inserts the Account and its Challenge
ProvisionCreate(p) ==
  /\ req[p].op = "provision" /\ req[p].pc = "create"
  /\ Cardinality(accounts) < MaxAccounts
  /\ LET id == NextAccountId IN
       /\ accounts' = accounts \cup {[id |-> id, userId |-> "u1"]}
       /\ challenges' = challenges \cup
            {[accountId |-> id, stripePaymentId |-> req[p].payment]}
  /\ req' = [req EXCEPT ![p] = Done(req[p], Success)]
  /\ UNCHANGED <<now, cfg, users, creds, oauthAccounts, sessions, streak, lockDeadline>>

(***************************************************************************)
(* Environment                                                             *)
(***************************************************************************)
\* The database cannot be reached: the persistence call a login or a federated
\* login is about to make (the first read of a login included) rejects, and the
\* handler, which catches nothing around it, throws that error.
PersistenceUnreachable(p) ==
  /\ \/ /\ req[p].pc = "idle"
        /\ req' = [req EXCEPT ![p] =
              Done([Idle EXCEPT !.op = "login", !.outage = TRUE], DatabaseUnreachable)]
     \/ /\ req[p].op \in {"login", "google"} /\ req[p].pc # "idle"
        /\ req' = [req EXCEPT ![p] =
              Done([req[p] EXCEPT !.outage = TRUE, !.access = NoToken,
                                  !.refresh = NoToken],
                   DatabaseUnreachable)]
  /\ UNCHANGED <<now, cfg, users, creds, oauthAccounts, sessions, streak, lockDeadline,
               accounts, challenges>>

\* adminUpdateUser with a status
AdminUpdateUser(u, status) ==
  /\ users[u].deletedAt = NULL
  /\ users[u].status # status
  /\ users' = [users EXCEPT ![u].status = status]
  /\ UNCHANGED <<now, cfg, creds, sessions, req, streak, lockDeadline, oauthAccounts,
               accounts, challenges>>

\* adminUpdateUser with a role
AdminUpdateUserRole(u, role) ==
  /\ users[u].deletedAt = NULL
  /\ users[u].role # role
  /\ users' = [users EXCEPT ![u].role = role]
  /\ UNCHANGED <<now, cfg, creds, sessions, req, streak, lockDeadline, oauthAccounts,
               accounts, challenges>>

\* softDeleteUser: the update matches only a row whose deletedAt is null
SoftDeleteUser(u) ==
  /\ users[u].deletedAt = NULL
  /\ users' = [users EXCEPT ![u].deletedAt = now]
  /\ UNCHANGED <<now, cfg, creds, sessions, req, streak, lockDeadline, oauthAccounts,
                 accounts, challenges>>

Tick(d, limit) ==
  /\ now + d <= limit
  /\ now' = now + d
  /\ UNCHANGED <<cfg, users, creds, sessions, req, streak, lockDeadline, oauthAccounts,
               accounts, challenges>>

(***************************************************************************)
(* The lockout specification: password logins of every kind racing on one  *)
(* credential, under the default configuration.                            *)
(***************************************************************************)
LockoutInit == Init /\ cfg = [n |-> 30, unit |-> "d"]

LockoutNext ==
  \/ \E p \in Procs, e \in Emails, pw \in Passwords : LoginFind(p, e, pw)
  \/ \E p \in Procs : LoginIncrement(p)
  \/ \E p \in Procs : LoginLock(p)
  \/ \E p \in Procs : LoginReset(p)
  \/ \E p \in Procs : LoginUpdateLastLogin(p)
  \/ \E p \in Procs : LoginCreateSession(p)
  \/ \E u \in UserIds, s \in {"ACTIVE", "BANNED"} : AdminUpdateUser(u, s)
  \/ Tick(QuarterHour, MaxNowLockout)

SpecLockout == LockoutInit /\ [][LockoutNext]_vars

(***************************************************************************)
(* The session specification: logins that present the right password,     *)
(* refreshes and logouts, under either configuration.                      *)
(***************************************************************************)
SessionNext ==
  \/ \E p \in Procs : LoginFind(p, "Alice@x.com", "Passw0rd!")
  \/ \E p \in Procs : LoginReset(p)
  \/ \E p \in Procs : LoginUpdateLastLogin(p)
  \/ \E p \in Procs : LoginCreateSession(p)
  \/ \E p \in Procs, tok \in KnownTokens : RefreshVerify(p, tok)
  \/ \E p \in Procs : RefreshFindSession(p)
  \/ \E p \in Procs : RefreshDeleteExpired(p)
  \/ \E p \in Procs : RefreshFindUser(p)
  \/ \E p \in Procs : RefreshDeleteInactive(p)
  \/ \E p \in Procs, tok \in KnownTokens : Logout(p, tok)
  \/ \E u \in UserIds, s \in {"ACTIVE", "SUSPENDED", "BANNED"} : AdminUpdateUser(u, s)
  \/ Tick(ThirtyDays, MaxNow)

SpecSession == Init /\ [][SessionNext]_vars

(***************************************************************************)
(* The refresh specification: logins that present the right password and   *)
(* refreshes, while an admin changes the user's role and status, under the *)
(* default configuration (where no Session expires before its token).      *)
(***************************************************************************)
RefreshNext ==
  \/ \E p \in Procs : LoginFind(p, "alice@x.com", "Passw0rd!")
  \/ \E p \in Procs : LoginReset(p)
  \/ \E p \in Procs : LoginUpdateLastLogin(p)
  \/ \E p \in Procs : LoginCreateSession(p)
  \/ \E p \in Procs, tok \in KnownTokens : RefreshVerify(p, tok)
  \/ \E p \in Procs : RefreshFindSession(p)
  \/ \E p \in Procs : RefreshFindUser(p)
  \/ \E p \in Procs : RefreshDeleteInactive(p)
  \/ \E u \in UserIds, s \in {"ACTIVE", "SUSPENDED"} : AdminUpdateUser(u, s)
  \/ \E u \in UserIds, r \in {"TRADER", "ADMIN"} : AdminUpdateUserRole(u, r)
  \/ Tick(ThirtyDays, ThirtyDays)

SpecRefresh == LockoutInit /\ [][RefreshNext]_vars

(***************************************************************************)
(* The federated specification: Google logins for a linked subject, for an *)
(* email that matches the password user and for a new email, while an      *)
(* admin changes the password user's status.                               *)
(***************************************************************************)
FederatedNext ==
  \/ \E p \in Procs, a \in GoogleAssertions : GoogleVerify(p, a)
  \/ \E p \in Procs : GoogleFindOAuthAccount(p)
  \/ \E p \in Procs : GoogleFindUserByEmail(p)
  \/ \E p \in Procs : GoogleLink(p)
  \/ \E p \in Procs : GoogleCreate(p)
  \/ \E p \in Procs : GoogleUpdateLastLogin(p)
  \/ \E p \in Procs : GoogleCreateSession(p)
  \/ \E u \in UserIds, s \in {"ACTIVE", "BANNED"} : AdminUpdateUser(u, s)
  \/ Tick(ThirtyDays, ThirtyDays)

SpecFederated == LockoutInit /\ [][FederatedNext]_vars

(***************************************************************************)
(* The verified-assertion specification: the same Google logins, where     *)
(* every assertion is valid and says email_verified = true.                *)
(***************************************************************************)
VerifiedAssertions ==
  {a \in GoogleAssertions : a.valid /\ a.email # "none" /\ a.email_verified = "true"}

VerifiedNext ==
  \/ \E p \in Procs, a \in VerifiedAssertions : GoogleVerify(p, a)
  \/ \E p \in Procs : GoogleFindOAuthAccount(p)
  \/ \E p \in Procs : GoogleFindUserByEmail(p)
  \/ \E p \in Procs : GoogleLink(p)
  \/ \E p \in Procs : GoogleCreate(p)
  \/ \E p \in Procs : GoogleUpdateLastLogin(p)
  \/ \E p \in Procs : GoogleCreateSession(p)
  \/ \E u \in UserIds, s \in {"ACTIVE", "SUSPENDED", "BANNED"} : AdminUpdateUser(u, s)

SpecVerified == LockoutInit /\ [][VerifiedNext]_vars

(***************************************************************************)
(* The status specification: password logins on one credential, right and  *)
(* wrong, while an admin suspends, bans and restores the user.             *)
(***************************************************************************)
StatusNext ==
  \/ \E p \in Procs, pw \in Passwords : LoginFind(p, "alice@x.com", pw)
  \/ \E p \in Procs : LoginIncrement(p)
  \/ \E p \in Procs : LoginLock(p)
  \/ \E p \in Procs : LoginReset(p)
  \/ \E p \in Procs : LoginUpdateLastLogin(p)
  \/ \E p \in Procs : LoginCreateSession(p)
  \/ \E u \in UserIds, s \in {"ACTIVE", "SUSPENDED", "BANNED"} : AdminUpdateUser(u, s)
  \/ Tick(QuarterHour, QuarterHour)

SpecStatus == LockoutInit /\ [][StatusNext]_vars

(***************************************************************************)
(* The counter specification: every operation of the auth service around   *)
(* one credential -- password logins right and wrong, registrations,       *)
(* federated logins that link to the password user, refreshes and logouts. *)
(***************************************************************************)
CounterAssertions ==
  {a \in VerifiedAssertions : a.sub = "g1" /\ a.email = "Alice@x.com"}

\* the refresh tokens a client holds
IssuedRefreshTokens == {tok \in KnownTokens : tok.type = "refresh"}

CounterNext ==
  \/ \E p \in Procs, pw \in Passwords : LoginFind(p, "alice@x.com", pw)
  \/ \E p \in Procs : LoginIncrement(p)
  \/ \E p \in Procs : LoginLock(p)
  \/ \E p \in Procs : LoginReset(p)
  \/ \E p \in Procs : LoginUpdateLastLogin(p)
  \/ \E p \in Procs : LoginCreateSession(p)
  \/ \E p \in Procs, e \in {"Alice@x.com", "bob@x.com"} : RegisterFind(p, e, "Passw0rd!")
  \/ \E p \in Procs : RegisterCreate(p)
  \/ \E p \in Procs, a \in CounterAssertions : GoogleVerify(p, a)
  \/ \E p \in Procs : GoogleFindOAuthAccount(p)
  \/ \E p \in Procs : GoogleFindUserByEmail(p)
  \/ \E p \in Procs : GoogleLink(p)
  \/ \E p \in Procs : GoogleUpdateLastLogin(p)
  \/ \E p \in Procs : GoogleCreateSession(p)
  \/ \E p \in Procs, tok \in IssuedRefreshTokens : RefreshVerify(p, tok)
  \/ \E p \in Procs : RefreshFindSession(p)
  \/ \E p \in Procs : RefreshFindUser(p)
  \/ \E p \in Procs, tok \in IssuedRefreshTokens : Logout(p, tok)

SpecCounter == LockoutInit /\ [][CounterNext]_vars

(***************************************************************************)
(* The registration specification: registrations for the email of the      *)
(* existing user, in either case, and for a new email, racing each other.  *)
(***************************************************************************)
RegisterNext ==
  \/ \E p \in Procs, e \in {"alice@x.com", "Alice@x.com", "bob@x.com"},
        pw \in Passwords : RegisterFind(p, e, pw)
  \/ \E p \in Procs : RegisterCreate(p)
  \/ \E u \in UserIds, s \in {"ACTIVE", "SUSPENDED", "BANNED"} : AdminUpdateUser(u, s)
  \/ Tick(QuarterHour, MaxNowLockout)

SpecRegister == LockoutInit /\ [][RegisterNext]_vars

(***************************************************************************)
(* The outage specification: password and federated logins while the       *)
(* database or Google's certificate endpoint may be out of reach.          *)
(***************************************************************************)
OutageAssertions ==
  {a \in GoogleAssertions :
     ~a.valid \/ (a.sub = "g1" /\ a.email = "Alice@x.com" /\ a.email_verified = "true")}

OutageNext ==
  \/ \E p \in Procs, pw \in Passwords : LoginFind(p, "alice@x.com", pw)
  \/ \E p \in Procs : LoginIncrement(p)
  \/ \E p \in Procs : LoginLock(p)
  \/ \E p \in Procs : LoginReset(p)
  \/ \E p \in Procs : LoginUpdateLastLogin(p)
  \/ \E p \in Procs : LoginCreateSession(p)
  \/ \E p \in Procs, a \in OutageAssertions : GoogleVerify(p, a)
  \/ \E p \in Procs : GoogleFindOAuthAccount(p)
  \/ \E p \in Procs : GoogleFindUserByEmail(p)
  \/ \E p \in Procs : GoogleLink(p)
  \/ \E p \in Procs : GoogleUpdateLastLogin(p)
  \/ \E p \in Procs : GoogleCreateSession(p)
  \/ \E p \in Procs : PersistenceUnreachable(p)

SpecOutage == LockoutInit /\ [][OutageNext]_vars

(***************************************************************************)
(* The provisioning specification: deliveries of checkout.session.completed *)
(* for two payments, repeated and overlapping.                             *)
(***************************************************************************)
ProvisionNext ==
  \/ \E p \in Procs, pay \in Payments, plan \in Plans : ProvisionFindChallenge(p, pay, plan)
  \/ \E p \in Procs : ProvisionFindAccountType(p)
  \/ \E p \in Procs : ProvisionCreate(p)

SpecProvision == LockoutInit /\ [][ProvisionNext]_vars

(***************************************************************************)
(* The authenticate specification: logins that present the right password, *)
(* logouts and requests that go through the authenticate middleware, while *)
(* an admin suspends, bans and restores the user and access tokens expire. *)
(***************************************************************************)
AuthenticateNext ==
  \/ \E p \in Procs : LoginFind(p, "alice@x.com", "Passw0rd!")
  \/ \E p \in Procs : LoginReset(p)
  \/ \E p \in Procs : LoginUpdateLastLogin(p)
  \/ \E p \in Procs : LoginCreateSession(p)
  \/ \E p \in Procs, tok \in IssuedRefreshTokens : Logout(p, tok)
  \/ \E p \in Procs, tok \in KnownTokens \cup {NoToken} : Authenticate(p, tok)
  \/ \E u \in UserIds, s \in {"ACTIVE", "SUSPENDED", "BANNED"} : AdminUpdateUser(u, s)
  \/ Tick(QuarterHour, QuarterHour)
  \/ Tick(SevenDays, SevenDays + QuarterHour)

SpecAuthenticate == LockoutInit /\ [][AuthenticateNext]_vars

(***************************************************************************)
(* The soft-delete specification: an admin soft-deletes the password user  *)
(* while password logins, federated logins and refreshes go on.            *)
(***************************************************************************)
SoftDeleteNext ==
  \/ \E p \in Procs : LoginFind(p, "alice@x.com", "Passw0rd!")
  \/ \E p \in Procs : LoginReset(p)
  \/ \E p \in Procs : LoginUpdateLastLogin(p)
  \/ \E p \in Procs : LoginCreateSession(p)
  \/ \E p \in Procs, a \in CounterAssertions : GoogleVerify(p, a)
  \/ \E p \in Procs : GoogleFindOAuthAccount(p)
  \/ \E p \in Procs : GoogleFindUserByEmail(p)
  \/ \E p \in Procs : GoogleLink(p)
  \/ \E p \in Procs : GoogleUpdateLastLogin(p)
  \/ \E p \in Procs : GoogleCreateSession(p)
  \/ \E p \in Procs, tok \in IssuedRefreshTokens : RefreshVerify(p, tok)
  \/ \E p \in Procs : RefreshFindSession(p)
  \/ \E p \in Procs : RefreshFindUser(p)
  \/ \E u \in UserIds : SoftDeleteUser(u)
  \/ Tick(QuarterHour, QuarterHour)

SpecSoftDelete == LockoutInit /\ [][SoftDeleteNext]_vars

(***************************************************************************)
(* Properties                                                              *)
(***************************************************************************)
LoginOf(p) == req[p].op = "login"
RefreshOf(p) == req[p].op = "refresh"
InFlight(p) == req[p].pc # "idle"

\* C1: after MAX_FAILED_ATTEMPTS consecutive wrong-password logins, every
\* login call made before the lock deadline has elapsed is rejected at the
\* lockout check (or at the status check that precedes it), whatever its
\* password, and returns no tokens.
C1_LockedUntilDeadline ==
  \A p \in Procs :
    (LoginOf(p) /\ req[p].dueLocked) =>
       /\ ~InFlight(p)
       /\ req[p].result \in {Locked, Banned, Suspended}
       /\ req[p].refresh = NoToken /\ req[p].access = NoToken

\* C2: when no wrong-password login is in flight, a counter at or above the
\* threshold comes with a lock: the login whose increment returned a count
\* >= MAX_FAILED_ATTEMPTS has set lockedUntil.
WrongPasswordInFlight(p) ==
  /\ LoginOf(p)
  /\ \/ req[p].pc = "lock"
     \/ /\ req[p].pc = "compare"
        /\ ~bcryptCompare(req[p].password, creds[req[p].user].passwordHash)

C2_ThresholdLocks ==
  (\A p \in Procs : ~WrongPasswordInFlight(p)) =>
     \A u \in UserIds :
        creds[u].failedAttempts >= MAX_FAILED_ATTEMPTS => creds[u].lockedUntil # NULL

\* Two wrong-password logins that both passed the lockout check before either
\* locked: the increments returned 5 and 6, both locked, no time has passed.
C2_Witness ==
  /\ now = 0
  /\ \A p \in Procs : LoginOf(p) /\ ~InFlight(p) /\ req[p].result = LockedNow
  /\ \E u \in UserIds :
       creds[u].failedAttempts = MAX_FAILED_ATTEMPTS + 1 /\ creds[u].lockedUntil # NULL

\* C3: while a credential's lock is in the future, no step clears lockedUntil
\* or resets failedAttempts to 0.
C3_LockNotCleared ==
  [][\A u \in UserIds :
       isLocked(creds[u], now) =>
          /\ creds'[u].lockedUntil # NULL
          /\ (creds'[u].failedAttempts = 0 => creds[u].failedAttempts = 0)]_vars

\* C4: no password login returns a token pair at a moment when the stored
\* lockedUntil of its credential is in the future.
C4_NoTokensWhileLocked ==
  [][\A p \in Procs :
       (LoginOf(p) /\ InFlight(p) /\ req'[p].pc = "idle" /\ req'[p].result = Success)
          => ~isLocked(creds'[req[p].user], now')]_vars

\* C5: a password login returns success only along compare -> lastLogin ->
\* session, its step out of compare leaves failedAttempts = 0 and
\* lockedUntil = null, and from then until it returns every step that is not
\* a step of another request leaves the credential as it is.
C5_SuccessResets ==
  [][\A p \in Procs :
       LET u == req[p].user IN
       /\ (LoginOf(p) /\ InFlight(p) /\ req'[p].pc = "idle" /\ req'[p].result = Success)
            => req[p].pc = "session"
       /\ (LoginOf(p) /\ req'[p].pc = "session" /\ req[p].pc # "session")
            => req[p].pc = "lastLogin"
       /\ (LoginOf(p) /\ req'[p].pc = "lastLogin" /\ req[p].pc # "lastLogin")
            => /\ req[p].pc = "compare"
               /\ creds'[u].failedAttempts = 0
               /\ creds'[u].lockedUntil = NULL
       /\ (LoginOf(p) /\ req[p].pc \in {"lastLogin", "session"}
             /\ \A q \in Procs \ {p} : req'[q] = req[q])
            => creds'[u] = creds[u]]_vars

\* A login has returned success after a lock had been set, and the credential
\* is reset.
C5_Witness ==
  \E p \in Procs :
    /\ LoginOf(p) /\ ~InFlight(p) /\ req[p].result = Success
    /\ req[p].elapsed
    /\ creds[req[p].user].failedAttempts = 0
    /\ creds[req[p].user].lockedUntil = NULL
    /\ \A q \in Procs : ~InFlight(q)

\* C6: a login with the right password that found the lock elapsed, on an
\* ACTIVE or PENDING_VERIFICATION user, succeeds and returns tokens.
C6_ElapsedLockLoginSucceeds ==
  \A p \in Procs :
    (LoginOf(p) /\ ~InFlight(p) /\ req[p].elapsed) =>
       /\ req[p].result = Success
       /\ req[p].refresh # NoToken /\ req[p].access # NoToken

\* C7: a refresh of a token that verifies, started after a logout of that
\* token has completed, fails with UnauthorizedError and mints no access token.
C7_RevokedStaysRevoked ==
  \A p \in Procs :
    (RefreshOf(p) /\ ~InFlight(p) /\ req[p].afterLogout
       /\ req[p].token.type = "refresh" /\ req[p].result # TokenExpired) =>
       /\ req[p].result = SessionRevoked
       /\ req[p].access = NoToken

\* C8: when a refresh of a refresh token fails with TokenExpiredError, no
\* Session row of that token exists when it returns.
C8_ExpiredRefreshDeletesSession ==
  [][\A p \in Procs :
       (req'[p].op = "refresh" /\ req'[p] # req[p] /\ req'[p].pc = "idle"
          /\ req'[p].token.type = "refresh"
          /\ req'[p].result \in {TokenExpired, RefreshExpired})
         => \A s \in sessions' : s.token # req'[p].token]_vars

\* C9 as stated: a refresh called with a validly signed access token fails
\* with InvalidTokenError on the spot.
C9_AccessTokenInvalid ==
  \A p \in Procs :
    (RefreshOf(p) /\ req[p].token.type = "access") =>
       ~InFlight(p) /\ req[p].result = ExpectedRefresh

\* C9 amended: a refresh called with a validly signed access token fails on
\* the spot, with TokenExpiredError when the token has expired and with
\* InvalidTokenError otherwise; no Session is looked up and no Session, User
\* or Credential changes.
C9_AccessTokenRejected ==
  [][\A p \in Procs :
       (req[p].pc = "idle" /\ req'[p] # req[p] /\ req'[p].op = "refresh"
          /\ req'[p].token.type = "access")
         => /\ req'[p].pc = "idle"
            /\ req'[p].result =
                 (IF now >= req'[p].token.exp THEN TokenExpired ELSE ExpectedRefresh)
            /\ req'[p].access = NoToken
            /\ UNCHANGED <<sessions, users, creds>>]_vars

\* Both outcomes have happened: one slot was refused an unexpired access
\* token, the other an expired one, with a Session stored.
C9_Witness ==
  /\ sessions # {}
  /\ \E p, q \in Procs :
       /\ RefreshOf(p) /\ req[p].token.type = "access" /\ req[p].result = ExpectedRefresh
       /\ RefreshOf(q) /\ req[q].token.type = "access" /\ req[q].result = TokenExpired

\* C10: a refresh that finds its user banned or suspended fails with
\* AuthenticationError without an access token, and the token it presented is
\* rejected by every later refresh.
C10_InactiveStaysRejected ==
  \A p \in Procs :
    (RefreshOf(p) /\ ~InFlight(p)) =>
       /\ req[p].result = NoLongerActive => req[p].access = NoToken
       /\ req[p].afterInactive => req[p].result # Success

\* C11 as stated: once a refresh of a token has succeeded, a refresh of that
\* token that returns while its Session row is stored and unexpired returns
\* an access token.
C11_AcceptedWhileSessionLives ==
  [][\A p \in Procs :
       (req'[p].op = "refresh" /\ req'[p] # req[p] /\ req'[p].pc = "idle"
          /\ req'[p].token.type = "refresh"
          /\ AfterRefresh(req'[p].token) /\ LiveSession(req'[p].token))
         => req'[p].result = Success]_vars

\* C11 amended: a refresh that succeeds returns an access token and no refresh
\* token and leaves the Session registry as it is; a refresh of a refresh
\* token is accepted exactly when the token's own expiry has not passed, its
\* Session row is stored and unexpired and its user is not BANNED or SUSPENDED,
\* and each of these is decided at its own step.
C11_RefreshKeepsSession ==
  [][\A p \in Procs :
       LET tok == req'[p].token
           rows == {s \in sessions : s.token = tok}
       IN
       /\ (req'[p].op = "refresh" /\ req'[p] # req[p] /\ req'[p].pc = "idle"
              /\ req'[p].result = Success)
            => /\ sessions' = sessions
               /\ req'[p].refresh = NoToken
               /\ req'[p].access.type = "access"
               /\ req[p].pc = "findUser"
               /\ users[tok.sub].status \notin {"BANNED", "SUSPENDED"}
       /\ (req[p].pc = "idle" /\ req'[p] # req[p] /\ req'[p].op = "refresh"
              /\ tok.type = "refresh")
            => IF now >= tok.exp
                 THEN req'[p].pc = "idle" /\ req'[p].result = TokenExpired
                 ELSE req'[p].pc = "findSession"
       /\ (RefreshOf(p) /\ req[p].pc = "findSession" /\ req'[p] # req[p])
            => IF rows = {} THEN req'[p].result = SessionRevoked
               ELSE IF \E s \in rows : s.expiresAt < now
                 THEN req'[p].pc = "deleteExpired"
                 ELSE req'[p].pc = "findUser"
       /\ (RefreshOf(p) /\ req[p].pc = "findUser" /\ req'[p] # req[p])
            => IF users[tok.sub].status \in {"BANNED", "SUSPENDED"}
                 THEN req'[p].pc = "deleteInactive"
                 ELSE req'[p].pc = "idle" /\ req'[p].result = Success]_vars

\* The same refresh token has been accepted twice, and its Session is stored.
C11_Witness ==
  \E p, q \in Procs :
    /\ p # q /\ req[p].token = req[q].token
    /\ RefreshOf(p) /\ ~InFlight(p) /\ req[p].result = Success
    /\ RefreshOf(q) /\ ~InFlight(q) /\ req[q].result = Success
    /\ \E s \in sessions : s.token = req[p].token

\* C12: the access token and the user a successful refresh returns carry the
\* role stored when the refresh reads the user, and the status stored then is
\* not BANNED or SUSPENDED, whatever the refresh token embeds.
C12_RefreshUsesStoredUser ==
  [][\A p \in Procs :
       (req'[p].op = "refresh" /\ req'[p] # req[p] /\ req'[p].pc = "idle"
          /\ req'[p].result = Success)
         => /\ req'[p].access.sub = req'[p].token.sub
            /\ req'[p].user = req'[p].token.sub
            /\ req'[p].access.role = users[req'[p].token.sub].role
            /\ req'[p].role = users[req'[p].token.sub].role
            /\ req'[p].access.iat = now]_vars

\* A refresh with a refresh token minted for a TRADER has returned an access
\* token for an ADMIN.
C12_Witness ==
  \E p \in Procs :
    /\ RefreshOf(p) /\ ~InFlight(p) /\ req[p].result = Success
    /\ req[p].token.role = "TRADER"
    /\ req[p].access.role = "ADMIN" /\ req[p].role = "ADMIN"

\* C13: every logout returns without error, removes the Session row of its
\* token when there is one and changes nothing else; when there is none -- a
\* second logout, or a token that never had a Session -- the Session registry
\* stays exactly as it was.
C13_LogoutIdempotent ==
  [][\A p \in Procs :
       (req[p].pc = "idle" /\ req'[p] # req[p] /\ req'[p].op = "logout")
         => /\ req'[p].pc = "idle" /\ req'[p].result = Success
            /\ sessions' = {s \in sessions : s.token # req'[p].token}
            /\ ((\A s \in sessions : s.token # req'[p].token) => sessions' = sessions)
            /\ UNCHANGED <<users, creds, oauthAccounts>>]_vars

\* Two logouts of the same issued refresh token have returned and no Session
\* is stored.
C13_Witness ==
  \E p, q \in Procs :
    /\ p # q /\ req[p].token = req[q].token /\ req[p].token.type = "refresh"
    /\ req[p].op = "logout" /\ req[p].result = Success
    /\ req[q].op = "logout" /\ req[q].result = Success
    /\ sessions = {}

\* C14: a password or federated login that has passed its checks and reached
\* createSession returns its token pair, and when it returns exactly one
\* Session row holds the returned refresh token, owned by the returned user.
C14_LoginEndsWithSession ==
  [][\A p \in Procs :
       (req[p].op \in {"login", "google"} /\ req[p].pc = "session"
          /\ req'[p].pc = "idle")
         => /\ req'[p].result = Success
            /\ req'[p].refresh # NoToken /\ req'[p].access # NoToken
            /\ Cardinality({s \in sessions' : s.token = req'[p].refresh}) = 1
            /\ \A s \in sessions' :
                 s.token = req'[p].refresh => s.userId = req'[p].user]_vars

GoogleOf(p) == req[p].op = "google"

\* C15: a googleAuth call whose assertion carries an email that is not
\* verified (email_verified false or absent) is rejected as "not verified" at
\* once: it never proceeds, inserts no User or OAuthAccount and gets no tokens.
C15_UnverifiedEmailRejected ==
  \A p \in Procs :
    (GoogleOf(p) /\ req[p].email # "none" /\ req[p].verified \in {"false", "missing"}) =>
       /\ ~InFlight(p)
       /\ req[p].result = GoogleEmailUnverified
       /\ req[p].inserted = "none"
       /\ req[p].access = NoToken /\ req[p].refresh = NoToken

\* C16: the link step of a federated login inserts no User and leaves exactly
\* one OAuthAccount of its subject, owned by the User whose email matched; a
\* federated login that finds the OAuthAccount of its subject resolves its
\* owner and never reaches the email lookup, the link or the create step; and
\* OAuthAccounts are only ever inserted, one at a time, by a link or create
\* step.
C16_LinkedOnce ==
  [][/\ \A p \in Procs :
          LET linked == {o \in oauthAccounts : /\ o.provider = GOOGLE_PROVIDER
                                               /\ o.providerId = req[p].subject}
          IN
          /\ (GoogleOf(p) /\ req[p].pc = "link" /\ req'[p] # req[p])
               => /\ users' = users
                  /\ users[req[p].user].email = toLowerCase(req[p].email)
                  /\ IF linked = {}
                       THEN /\ oauthAccounts' = oauthAccounts \cup
                                 {[provider |-> GOOGLE_PROVIDER,
                                   providerId |-> req[p].subject,
                                   userId |-> req[p].user]}
                            /\ req'[p].pc = "lastLogin"
                       ELSE oauthAccounts' = oauthAccounts /\ req'[p].pc = "idle"
          /\ (GoogleOf(p) /\ req[p].pc = "findOAuth" /\ req'[p] # req[p]
                /\ linked # {})
               => /\ req'[p].pc \in {"lastLogin", "idle"}
                  /\ \E o \in linked : req'[p].user = o.userId
                  /\ req'[p].inserted = "none"
          /\ (GoogleOf(p) /\ req[p].pc \in {"lastLogin", "session"})
               => req'[p].inserted = req[p].inserted
     /\ oauthAccounts' # oauthAccounts
          => /\ oauthAccounts \subseteq oauthAccounts'
             /\ Cardinality(oauthAccounts') = Cardinality(oauthAccounts) + 1
             /\ \E p \in Procs : GoogleOf(p) /\ req[p].pc \in {"link", "create"}
                                   /\ req'[p].inserted # "none"]_vars

\* A federated login has linked its subject to the password User, and a later
\* federated login with the same subject has returned tokens for that User
\* without inserting anything.
C16_Witness ==
  \E p, q \in Procs :
    /\ GoogleOf(p) /\ req[p].result = Success /\ req[p].inserted = "oauth"
    /\ GoogleOf(q) /\ req[q].result = Success /\ req[q].inserted = "none"
    /\ req[p].subject = req[q].subject /\ req[p].user = req[q].user
    /\ req[p].refresh.iat < req[q].refresh.iat
    /\ req[p].user \in DOMAIN creds
    /\ Cardinality(oauthAccounts) = 1 /\ DOMAIN users = UserIds

\* C17: every step of a googleAuth call inserts nothing, or one OAuthAccount
\* and no User, or one User together with the one OAuthAccount that the new
\* User owns; a call inserts at most once; and every User without a
\* Credential owns an OAuthAccount.
C17_OneInsertPerCall ==
  [][/\ \A p \in Procs :
          (req'[p] # req[p] /\ req'[p].op = "google") =>
             LET newUsers == DOMAIN users' \ DOMAIN users
                 newAccounts == oauthAccounts' \ oauthAccounts
             IN
             /\ oauthAccounts \subseteq oauthAccounts'
             /\ \A u \in DOMAIN users :
                  [users'[u] EXCEPT !.lastLoginAt = users[u].lastLoginAt] = users[u]
             /\ \/ /\ newUsers = {} /\ newAccounts = {}
                   /\ req'[p].inserted = (IF req[p].pc = "idle" THEN "none"
                                          ELSE req[p].inserted)
                \/ /\ newUsers = {} /\ Cardinality(newAccounts) = 1
                   /\ req[p].inserted = "none" /\ req'[p].inserted = "oauth"
                \/ /\ Cardinality(newUsers) = 1 /\ Cardinality(newAccounts) = 1
                   /\ \A o \in newAccounts : o.userId \in newUsers
                   /\ req[p].inserted = "none" /\ req'[p].inserted = "user+oauth"
     /\ \A u \in DOMAIN users' \ DOMAIN creds' :
          \E o \in oauthAccounts' : o.userId = u]_vars

\* One call has inserted a User with its OAuthAccount, another call one
\* OAuthAccount for the password User, and a third kind -- a call for a linked
\* subject -- nothing: all three outcomes have happened.
C17_Witness ==
  /\ \E o \in oauthAccounts : o.userId \in NewUserIds
  /\ \E o \in oauthAccounts : o.userId \in UserIds
  /\ \E p, q \in Procs :
       /\ GoogleOf(p) /\ ~InFlight(p) /\ req[p].result = Success
       /\ req[p].inserted = "none"
       /\ GoogleOf(q) /\ ~InFlight(q) /\ req[q].inserted = "user+oauth"

\* C18: at most one OAuthAccount per (provider, subject), and every User owns
\* at most one OAuthAccount per provider.
C18_OneAccountPerProvider ==
  \A o1, o2 \in oauthAccounts :
    /\ (o1.provider = o2.provider /\ o1.providerId = o2.providerId) => o1 = o2
    /\ (o1.provider = o2.provider /\ o1.userId = o2.userId) => o1 = o2

\* C19: a googleAuth call that resolved a User who was BANNED or SUSPENDED when
\* the call read it -- through the OAuthAccount of its subject or through the
\* email match -- never returns tokens, and no Session is created for it.
C19_InactiveNeverFederated ==
  \A p \in Procs :
    (GoogleOf(p) /\ req[p].inactive /\ ~InFlight(p)) =>
       /\ req[p].result # Success
       /\ req[p].access = NoToken /\ req[p].refresh = NoToken

\* C20: a login that reads a BANNED or SUSPENDED user is rejected at that read
\* with the status error, whatever its password and whether or not the
\* credential is locked, and the step changes no User (last-login included),
\* no Credential and no Session.
C20_StatusCheckedFirst ==
  [][\A p \in Procs :
       (req[p].pc = "idle" /\ req'[p] # req[p] /\ req'[p].op = "login"
          /\ req'[p].user # "none"
          /\ users[req'[p].user].status \in {"BANNED", "SUSPENDED"})
         => /\ req'[p].pc = "idle"
            /\ req'[p].result =
                 (IF users[req'[p].user].status = "BANNED" THEN Banned ELSE Suspended)
            /\ req'[p].access = NoToken /\ req'[p].refresh = NoToken
            /\ UNCHANGED <<users, creds, sessions>>]_vars

\* A login of a suspended user has been rejected as suspended while the
\* credential's lock was running, and a login of a banned user as banned.
C20_Witness ==
  \E p, q \in Procs :
    /\ LoginOf(p) /\ ~InFlight(p) /\ req[p].result = Suspended
    /\ users[req[p].user].status = "SUSPENDED"
    /\ isLocked(creds[req[p].user], now)
    /\ LoginOf(q) /\ ~InFlight(q) /\ req[q].result = Banned

\* C21: a step sets a Credential's failedAttempts to 0 only when it is the
\* step of a password login whose bcrypt.compare succeeded; every other step
\* leaves the counter as it is or raises it by exactly 1; only the step of a
\* login whose bcrypt.compare failed raises it; and a step of a register, a
\* federated login, a refresh or a logout changes no stored Credential.
C21_CounterWrittenByLoginOnly ==
  [][/\ \A u \in DOMAIN creds :
          LET before == creds[u].failedAttempts
              after == creds'[u].failedAttempts
          IN
          /\ after = before \/ after = before + 1 \/ after = 0
          /\ (after = 0 /\ before # 0) =>
                \E p \in Procs :
                   /\ LoginOf(p) /\ req[p].pc = "compare" /\ req[p].user = u
                   /\ bcryptCompare(req[p].password, creds[u].passwordHash)
                   /\ req'[p].pc = "lastLogin"
          /\ after = before + 1 =>
                \E p \in Procs :
                   /\ LoginOf(p) /\ req[p].pc = "compare" /\ req[p].user = u
                   /\ ~bcryptCompare(req[p].password, creds[u].passwordHash)
                   /\ req'[p] # req[p]
     /\ \A p \in Procs :
          (req'[p] # req[p] /\ req'[p].op \in {"register", "google", "refresh", "logout"})
             => \A u \in DOMAIN creds : creds'[u] = creds[u]
     /\ \A u \in DOMAIN creds' \ DOMAIN creds : creds'[u].failedAttempts = 0]_vars

\* The counter stands at 2 after wrong-password logins while a register has
\* created a second Credential, a federated login has linked the password
\* User and a logout has returned: none of them has touched it.
C21_Witness ==
  /\ creds["u1"].failedAttempts = 2
  /\ DOMAIN creds # UserIds
  /\ \E o \in oauthAccounts : o.userId = "u1"
  /\ \E p \in Procs : req[p].op = "logout" /\ req[p].token.type = "refresh"
  /\ \E p \in Procs : RefreshOf(p) /\ req[p].result = Success

\* C22: no federated login creates a Session or returns a token pair for a
\* User whose Credential has lockedUntil in the future: the step that would
\* store the Session of a locked User is never taken.
C22_LockGatesFederated ==
  [][\A p \in Procs :
       (GoogleOf(p) /\ req[p].pc = "session" /\ req'[p].pc = "idle"
          /\ req[p].user \in DOMAIN creds
          /\ isLocked(creds[req[p].user], req[p].refresh.iat)
          /\ isLocked(creds[req[p].user], now))
         => /\ req'[p].result # Success
            /\ sessions' = sessions]_vars

RegisterOf(p) == req[p].op = "register"

\* C23: a register call that does not create its User -- because a User with
\* that email, ignoring case, exists when it looks or when it inserts -- fails
\* with ConflictError and creates no User and no Credential; of two concurrent
\* calls for one email the loser fails with ConflictError too.
C23_DuplicateEmailConflicts ==
  [][\A p \in Procs :
       (req'[p].op = "register" /\ req'[p] # req[p] /\ req'[p].pc = "idle"
          /\ req'[p].result # Success)
         => /\ req'[p].result = Conflict
            /\ users' = users /\ creds' = creds]_vars

\* C24: every step of a register call leaves the Session registry exactly as
\* it is; a register that succeeds returns an access and a refresh token of
\* the User it created, and when it returns no Session row holds that refresh
\* token.
C24_RegisterStoresNoSession ==
  [][\A p \in Procs :
       (req'[p].op = "register" /\ req'[p] # req[p]) =>
          /\ sessions' = sessions
          /\ (req'[p].pc = "idle" /\ req'[p].result = Success) =>
                /\ req'[p].access.type = "access"
                /\ req'[p].refresh.type = "refresh"
                /\ req'[p].access.sub = req'[p].user
                /\ req'[p].refresh.sub = req'[p].user
                /\ req'[p].user \in DOMAIN users' \ DOMAIN users
                /\ \A t \in sessions' : t.token # req'[p].refresh
          /\ (req'[p].pc = "idle" /\ req'[p].result # Success) =>
                req'[p].access = NoToken /\ req'[p].refresh = NoToken]_vars

\* A register has returned its token pair while a Session of another login is
\* stored, and a refresh of the refresh token it returned has been answered
\* "session revoked".
C24_Witness ==
  /\ sessions # {}
  /\ \E p, q \in Procs :
       /\ RegisterOf(p) /\ ~InFlight(p) /\ req[p].result = Success
       /\ RefreshOf(q) /\ ~InFlight(q) /\ req[q].token = req[p].refresh
       /\ req[q].result = SessionRevoked

\* C25: a login for an email with no User always answers "Invalid email or
\* password", so the two runs of the claim give the same responses exactly
\* when every login that fails after bcrypt.compare rejected its password on
\* an existing User answers "Invalid email or password" as well.
C25_NoEnumeration ==
  [][\A p \in Procs :
       /\ (req[p].pc = "idle" /\ req'[p] # req[p] /\ req'[p].op = "login"
             /\ req'[p].user = "none")
            => req'[p].pc = "idle" /\ req'[p].result = InvalidCredentials
       /\ (LoginOf(p) /\ req[p].pc \in {"compare", "lock"} /\ req'[p].pc = "idle")
            => req'[p].result = InvalidCredentials]_vars

\* C26: a login or federated login that could not reach the identity verifier
\* or the database ends with an error outside the authentication taxonomy:
\* its outcome is never an AuthenticationError.
AuthenticationErrors ==
  {InvalidCredentials, Banned, Suspended, Locked, LockedNow, NoLongerActive,
   InvalidGoogleToken, NoGoogleEmail, GoogleEmailUnverified}

C26_OutageIsInternal ==
  \A p \in Procs :
    (req[p].op \in {"login", "google"} /\ ~InFlight(p) /\ req[p].outage) =>
       req[p].result \notin AuthenticationErrors

\* C27: whatever deliveries have run, one after another or overlapping, at
\* most one Challenge carries a given Stripe payment id, and so at most one
\* Account was provisioned for it.
C27_OneProvisionPerPayment ==
  \A pay \in Payments :
    /\ Cardinality(findChallengeByPayment(pay)) <= 1
    /\ Cardinality({c.accountId : c \in findChallengeByPayment(pay)}) <= 1

\* C28: while a stored lock has elapsed, no login is in flight and the last
\* login that returned was a wrong-password one (so no successful login has
\* happened since the lock was set), failedAttempts is still at least
\* MAX_FAILED_ATTEMPTS; and the increment of a wrong-password login made on an
\* elapsed lock returns at least MAX_FAILED_ATTEMPTS, so that the login goes
\* on to lock the credential until LOCKOUT_MINUTES from now.
C28_ElapsedLockKeepsCounter ==
  [][\A u \in UserIds :
       /\ (Elapsed(u) /\ streak[u] > 0 /\ \A q \in Procs : ~InFlight(q))
            => creds[u].failedAttempts >= MAX_FAILED_ATTEMPTS
       /\ \A p \in Procs :
            (Elapsed(u) /\ streak[u] > 0 /\ (\A q \in Procs \ {p} : ~InFlight(q))
               /\ LoginOf(p) /\ req[p].pc = "compare" /\ req[p].user = u
               /\ creds'[u].failedAttempts = creds[u].failedAttempts + 1
               /\ req'[p] # req[p])
              => /\ req'[p].pc = "lock"
                 /\ req'[p].attempts >= MAX_FAILED_ATTEMPTS
                 /\ req'[p].lockUntil = now + LOCKOUT_MINUTES * 60]_vars

AuthenticateOf(p) == req[p].op = "authenticate"

\* C29: authenticate answers in one step from the token and the clock alone:
\* it accepts exactly the access tokens whose expiry has not passed, with the
\* user id and role the token carries, rejects every refresh token, and reads
\* and changes no Session, User or Credential -- whether or not a Session of
\* the token's user is stored and whatever the user's status is.
C29_AuthenticateIsStateless ==
  [][\A p \in Procs :
       (req[p].pc = "idle" /\ req'[p] # req[p] /\ req'[p].op = "authenticate") =>
          LET tok == req'[p].token IN
          /\ req'[p].pc = "idle"
          /\ UNCHANGED <<users, creds, sessions, oauthAccounts>>
          /\ req'[p].result = Success <=> (tok.type = "access" /\ now < tok.exp)
          /\ req'[p].result = Success =>
                req'[p].user = tok.sub /\ req'[p].role = tok.role
          /\ tok.type = "refresh" =>
                req'[p].result \in {ExpectedAccess, AccessTokenExpired}
          /\ req'[p].access = NoToken /\ req'[p].refresh = NoToken]_vars

\* An access token has been accepted a quarter of an hour after its login,
\* after the logout of the refresh token issued with it has returned, with no
\* Session stored and its user BANNED.
C29_Witness ==
  \E p, q \in Procs :
    /\ AuthenticateOf(p) /\ req[p].result = Success
    /\ req[p].token.iat < now
    /\ users[req[p].token.sub].status = "BANNED"
    /\ req[q].op = "logout" /\ req[q].token.type = "refresh"
    /\ req[q].token.sub = req[p].token.sub /\ req[q].token.iat = req[p].token.iat
    /\ sessions = {}

\* C30: a login, federated login or refresh that resolved a User whose
\* deletedAt was set when the call read it never returns a token.
C30_DeletedNeverAuthenticated ==
  \A p \in Procs :
    (req[p].op \in {"login", "google", "refresh"} /\ ~InFlight(p) /\ req[p].deleted) =>
       /\ req[p].result # Success
       /\ req[p].access = NoToken /\ req[p].refresh = NoToken
====
